---- MODULE Spec2Model ----
(***************************************************************************)
(* The option-selling dashboard of src/app.py as a state machine: the      *)
(* data retrieved at the start of a session, the Streamlit session state   *)
(* (the widgets' values and the history log), and the report of the        *)
(* scoring run the current script run performed, if it performed one.      *)
(*                                                                         *)
(* Fixed point. Python floats are carried as integers:                     *)
(*   volatility index and percent changes   in hundredths (step=0.01)      *)
(*   put/call ratio                         in thousandths (round(x, 3))   *)
(*   points and scores                      in tenths      (round(x, 1))   *)
(* so the thresholds read 2000 / 1500 (VIX 20 / 15), 1000 / 700 (ratio     *)
(* 1 / 0.7) and 650 / 800 (score 65 / 80).                                 *)
(*                                                                         *)
(* The dashboard scores only while get_market_status() is "live"           *)
(* (app.py:697-700); the model is of a session in that phase. The          *)
(* yfinance fetchers are cached for 300 s (app.py:84-132), and a session   *)
(* is modelled within one cache period: their results are drawn in Init.   *)
(*                                                                         *)
(* SpecEngine is the engine without the dashboard: one direct call of one  *)
(* scorer, of get_trade_recommendation or of src/script.py's               *)
(* trading_signal, with `report` holding the call and how it ended.        *)
(***************************************************************************)
EXTENDS Integers, Sequences, FiniteSets, TLC

VARIABLES fetched, ss, history, calculated, report

vars == <<fetched, ss, history, calculated, report>>

\* ------------------------------------------------------------------ bounds
\* The session is explored up to MaxHist rows of history.
MaxHist == 2

\* ------------------------------------------------------------- Python values
\* Python's None, for the optional numbers.
None == -1000000
\* The text "N/A" a history row shows for a missing number.
NA == -2000000
\* A failed fetch_oi_ratio / an unusable override: oi_data is None; a usable
\* one is <<ratio, put_oi, call_oi>> (expiry and spot are display only).
NoData == <<>>
\* A failed fetch_nifty_top10 / fetch_sectors returns the empty dict.
EmptyDict == [k \in {} |-> None]

Min(a, b) == IF a <= b THEN a ELSE b
Max(a, b) == IF a >= b THEN a ELSE b
Abs(a) == IF a >= 0 THEN a ELSE -a
Range(s) == {s[i] : i \in 1..Len(s)}

\* round(n / d, ndigits) on the fixed-point grid: the nearest integer to n/d
\* (n >= 0, d > 0). At an exact decimal tie Python rounds the binary float,
\* which lies to one side of the tie; the tie goes to the even neighbour here,
\* and the input sets below hold no value that lands on one.
RoundDiv(n, d) ==
    LET q == n \div d
        r == n % d
    IN  IF 2 * r < d THEN q
        ELSE IF 2 * r > d THEN q + 1
        ELSE IF q % 2 = 0 THEN q ELSE q + 1

\* math.log on the positive integers 1..41, in millionths.
LnTable ==
    << 0, 693147, 1098612, 1386294, 1609438, 1791759, 1945910, 2079442,
       2197225, 2302585, 2397895, 2484907, 2564949, 2639057, 2708050,
       2772589, 2833213, 2890372, 2944439, 2995732, 3044522, 3091042,
       3135494, 3178054, 3218876, 3258097, 3295837, 3332205, 3367296,
       3401197, 3433987, 3465736, 3496508, 3526361, 3555348, 3583519,
       3610918, 3637586, 3663562, 3688879, 3713572 >>

\* round(min(1, abs(math.log(a / b))) * 20, 1), in tenths, for integers a, b > 0.
LogStrengthPts(a, b) ==
    LET strength == Min(1000000, Abs(LnTable[a] - LnTable[b]))
    IN  RoundDiv(strength * 200, 1000000)

\* dict.get(key): None for an absent key.
Get(d, k) == IF k \in DOMAIN d THEN d[k] ELSE None

\* Python truthiness of an optional number: None and 0 are falsy.
Truthy(x) == x # None /\ x # 0

\* `x or "N/A"`.
OrNA(x) == IF Truthy(x) THEN x ELSE NA

\* ------------------------------------------------------------------ config
NIFTY_TOP10 ==
    << "RELIANCE", "TCS", "HDFCBANK", "ICICIBANK", "INFY",
       "HINDUNILVR", "ITC", "SBIN", "BHARTIARTL", "KOTAKBANK" >>

SECTOR_INDICES ==
    << "IT", "Bank", "Auto", "Pharma", "FMCG",
       "Metal", "Realty", "Energy", "Infra", "Media" >>

\* The keys of the four additive factors in `details`.
DetailKeys == {"Nifty Breadth", "OI Ratio (P/C)", "Advance-Decline", "Sector Heatmap"}

\* ----------------------------------------------------------------- scorers
\* A label f"{pts} <word> (<note>)": the points, the direction word and the note.
Label(pts, word, note) == [pts |-> pts, word |-> word, note |-> note]

\* `"Bullish" in v`: the substring test on a label.
Contains(label, word) == label.word = word

\* A faulty variant of score_vix: the block starts at 20 instead of above 20.
score_vix_from_20(vix) ==
    IF vix = None THEN [adj |-> 0, label |-> Label(None, "Unknown", "")]
    ELSE IF vix >= 2000 THEN [adj |-> -9990, label |-> Label(vix, "DANGER", "Avoid selling")]
    ELSE IF vix > 1500 THEN [adj |-> -100, label |-> Label(vix, "Elevated", "Reduce size")]
    ELSE [adj |-> 0, label |-> Label(vix, "Safe zone", "")]

score_vix(vix) ==
    IF vix = None THEN [adj |-> 0, label |-> Label(None, "Unknown", "")]
    ELSE IF vix > 2000 THEN [adj |-> -9990, label |-> Label(vix, "DANGER", "Avoid selling")]
    ELSE IF vix > 1500 THEN [adj |-> -100, label |-> Label(vix, "Elevated", "Reduce size")]
    ELSE [adj |-> 0, label |-> Label(vix, "Safe zone", "")]

\* A faulty variant of CountUp: an entry of exactly 0 counts as up.
CountUp_from_0(d) == Cardinality({k \in DOMAIN d : d[k] # None /\ d[k] >= 0})

\* sum(1 for v in d.values() if v is not None and v > 0)
CountUp(d) == Cardinality({k \in DOMAIN d : d[k] # None /\ d[k] > 0})
\* sum(1 for v in d.values() if v is not None and v < 0)
CountDown(d) == Cardinality({k \in DOMAIN d : d[k] # None /\ d[k] < 0})

\* A faulty variant of score_nifty_breadth: more than 6 of 10, instead of 6 or more.
score_nifty_breadth_above_6(stock_changes) ==
    LET up == CountUp(stock_changes)
        down == CountDown(stock_changes)
    IN  IF up + down = 0
        THEN [pts |-> 150, label |-> Label(150, "Neutral", ""), up |-> up, down |-> down]
        ELSE IF up > 6
        THEN LET pts == RoundDiv(up * 300, 10)
             IN  [pts |-> pts, label |-> Label(pts, "Bullish", "up"), up |-> up, down |-> down]
        ELSE IF down > 6
        THEN LET pts == RoundDiv(down * 300, 10)
             IN  [pts |-> pts, label |-> Label(pts, "Bearish", "down"), up |-> up, down |-> down]
        ELSE [pts |-> 150, label |-> Label(150, "Neutral", "up / down"), up |-> up, down |-> down]

score_nifty_breadth(stock_changes) ==
    LET up == CountUp(stock_changes)
        down == CountDown(stock_changes)
    IN  IF up + down = 0
        THEN [pts |-> 150, label |-> Label(150, "Neutral", ""), up |-> up, down |-> down]
        ELSE IF up >= 6
        THEN LET pts == RoundDiv(up * 300, 10)
             IN  [pts |-> pts, label |-> Label(pts, "Bullish", "up"), up |-> up, down |-> down]
        ELSE IF down >= 6
        THEN LET pts == RoundDiv(down * 300, 10)
             IN  [pts |-> pts, label |-> Label(pts, "Bearish", "down"), up |-> up, down |-> down]
        ELSE [pts |-> 150, label |-> Label(150, "Neutral", "up / down"), up |-> up, down |-> down]

\* A faulty variant of score_oi_ratio: the cap min(30, .) is dropped.
score_oi_ratio_uncapped(ratio) ==
    IF ratio = None
    THEN [pts |-> 150, label |-> Label(150, "Neutral", "data unavailable")]
    ELSE IF ratio > 1000
    THEN LET pts == RoundDiv((ratio - 1000) * 3 + 1500, 10)
         IN  [pts |-> pts, label |-> Label(pts, "Bullish", "OI ratio")]
    ELSE IF ratio < 700
    THEN LET pts == RoundDiv((1000 - ratio) * 3 + 1500, 10)
         IN  [pts |-> pts, label |-> Label(pts, "Bearish", "OI ratio")]
    ELSE [pts |-> 150, label |-> Label(150, "Neutral", "OI ratio")]

\* A faulty variant of score_oi_ratio: a ratio of exactly 1 already counts as Bullish.
score_oi_ratio_from_1(ratio) ==
    IF ratio = None
    THEN [pts |-> 150, label |-> Label(150, "Neutral", "data unavailable")]
    ELSE IF ratio >= 1000
    THEN LET pts == RoundDiv(Min(3000, (ratio - 1000) * 3 + 1500), 10)
         IN  [pts |-> pts, label |-> Label(pts, "Bullish", "OI ratio")]
    ELSE IF ratio < 700
    THEN LET pts == RoundDiv(Min(3000, (1000 - ratio) * 3 + 1500), 10)
         IN  [pts |-> pts, label |-> Label(pts, "Bearish", "OI ratio")]
    ELSE [pts |-> 150, label |-> Label(150, "Neutral", "OI ratio")]

\* A faulty variant of score_oi_ratio: the directional points lose their base of 15.
score_oi_ratio_no_base(ratio) ==
    IF ratio = None
    THEN [pts |-> 150, label |-> Label(150, "Neutral", "data unavailable")]
    ELSE IF ratio > 1000
    THEN LET pts == RoundDiv(Min(3000, (ratio - 1000) * 3), 10)
         IN  [pts |-> pts, label |-> Label(pts, "Bullish", "OI ratio")]
    ELSE IF ratio < 700
    THEN LET pts == RoundDiv(Min(3000, (1000 - ratio) * 3), 10)
         IN  [pts |-> pts, label |-> Label(pts, "Bearish", "OI ratio")]
    ELSE [pts |-> 150, label |-> Label(150, "Neutral", "OI ratio")]

score_oi_ratio(ratio) ==
    IF ratio = None
    THEN [pts |-> 150, label |-> Label(150, "Neutral", "data unavailable")]
    ELSE IF ratio > 1000
    THEN LET pts == RoundDiv(Min(3000, (ratio - 1000) * 3 + 1500), 10)
         IN  [pts |-> pts, label |-> Label(pts, "Bullish", "OI ratio")]
    ELSE IF ratio < 700
    THEN LET pts == RoundDiv(Min(3000, (1000 - ratio) * 3 + 1500), 10)
         IN  [pts |-> pts, label |-> Label(pts, "Bearish", "OI ratio")]
    ELSE [pts |-> 150, label |-> Label(150, "Neutral", "OI ratio")]

\* A faulty variant of score_adv_dec: the neutral band keeps the strength-based points.
score_adv_dec_keeps_strength(advances, declines) ==
    IF advances = 0 /\ declines = 0
    THEN [pts |-> 100, label |-> Label(100, "Neutral", "")]
    ELSE IF declines = 0
    THEN [pts |-> 200, label |-> Label(200, "Bullish", "all advances")]
    ELSE IF advances = 0
    THEN [pts |-> 200, label |-> Label(200, "Bearish", "all declines")]
    ELSE LET pts == LogStrengthPts(advances, declines)
         IN  IF 10 * advances > 11 * declines
             THEN [pts |-> pts, label |-> Label(pts, "Bullish", "A / D")]
             ELSE IF 10 * advances < 9 * declines
             THEN [pts |-> pts, label |-> Label(pts, "Bearish", "A / D")]
             ELSE [pts |-> pts, label |-> Label(pts, "Neutral", "A / D")]

score_adv_dec(advances, declines) ==
    IF advances = 0 /\ declines = 0
    THEN [pts |-> 100, label |-> Label(100, "Neutral", "")]
    ELSE IF declines = 0
    THEN [pts |-> 200, label |-> Label(200, "Bullish", "all advances")]
    ELSE IF advances = 0
    THEN [pts |-> 200, label |-> Label(200, "Bearish", "all declines")]
    ELSE LET pts == LogStrengthPts(advances, declines)
         IN  IF 10 * advances > 11 * declines
             THEN [pts |-> pts, label |-> Label(pts, "Bullish", "A / D")]
             ELSE IF 10 * advances < 9 * declines
             THEN [pts |-> pts, label |-> Label(pts, "Bearish", "A / D")]
             ELSE [pts |-> 100, label |-> Label(100, "Neutral", "A / D")]

\* A faulty variant of score_sectors: one side at zero is scored like both at zero.
score_sectors_no_flat_20(sector_changes) ==
    LET bull == CountUp(sector_changes)
        bear == CountDown(sector_changes)
        out(p, w) == [pts |-> p, label |-> Label(p, w, "bull / bear"),
                      bull |-> bull, bear |-> bear]
    IN  IF bull + bear = 0
        THEN [pts |-> 100, label |-> Label(100, "Neutral", ""), bull |-> bull, bear |-> bear]
        ELSE IF bull > 0 /\ bear > 0
        THEN LET pts == LogStrengthPts(bull, bear)
             IN  IF 10 * bull > 11 * bear THEN out(pts, "Bullish")
                 ELSE IF 10 * bull < 9 * bear THEN out(pts, "Bearish")
                 ELSE out(100, "Neutral")
        ELSE out(100, "Neutral")

score_sectors(sector_changes) ==
    LET bull == CountUp(sector_changes)
        bear == CountDown(sector_changes)
        out(p, w) == [pts |-> p, label |-> Label(p, w, "bull / bear"),
                      bull |-> bull, bear |-> bear]
    IN  IF bull + bear = 0
        THEN [pts |-> 100, label |-> Label(100, "Neutral", ""), bull |-> bull, bear |-> bear]
        ELSE IF bull > 0 /\ bear > 0
        THEN LET pts == LogStrengthPts(bull, bear)
             IN  IF 10 * bull > 11 * bear THEN out(pts, "Bullish")
                 ELSE IF 10 * bull < 9 * bear THEN out(pts, "Bearish")
                 ELSE out(100, "Neutral")
        ELSE IF bull > bear THEN out(200, "Bullish")
        ELSE out(200, "Bearish")

\* A faulty variant of get_trade_recommendation: FLAT needs both conditions, not either.
get_trade_recommendation_and(score, details, vix_blocked) ==
    IF vix_blocked
    THEN [type |-> "BLOCKED",
          message |-> "VIX too high - Do NOT sell options today",
          delta |-> "Stay flat"]
    ELSE
    LET bullish == Cardinality({k \in DOMAIN details : Contains(details[k], "Bullish")})
        bearish == Cardinality({k \in DOMAIN details : Contains(details[k], "Bearish")})
    IN  IF Abs(bullish - bearish) <= 1 /\ score < 650
        THEN [type |-> "FLAT",
              message |-> "Mixed signals -> Sell BOTH sides (Iron Condor / Strangle)",
              delta |-> "10-20D CE & PE"]
        ELSE IF score >= 800
        THEN [type |-> "DIRECTIONAL",
              message |-> IF bullish > bearish
                          THEN "Strong edge -> Sell PUT side (Bullish)"
                          ELSE "Strong edge -> Sell CALL side (Bearish)",
              delta |-> "0.30-0.40D"]
        ELSE [type |-> "DIRECTIONAL",
              message |-> IF bullish > bearish
                          THEN "Decent edge -> Sell PUT side (Bullish)"
                          ELSE "Decent edge -> Sell CALL side (Bearish)",
              delta |-> "0.30D"]

\* A faulty variant of get_trade_recommendation: the PUT and CALL sides are swapped.
get_trade_recommendation_swapped(score, details, vix_blocked) ==
    IF vix_blocked
    THEN [type |-> "BLOCKED",
          message |-> "VIX too high - Do NOT sell options today",
          delta |-> "Stay flat"]
    ELSE
    LET bullish == Cardinality({k \in DOMAIN details : Contains(details[k], "Bullish")})
        bearish == Cardinality({k \in DOMAIN details : Contains(details[k], "Bearish")})
    IN  IF Abs(bullish - bearish) <= 1 \/ score < 650
        THEN [type |-> "FLAT",
              message |-> "Mixed signals -> Sell BOTH sides (Iron Condor / Strangle)",
              delta |-> "10-20D CE & PE"]
        ELSE IF score >= 800
        THEN [type |-> "DIRECTIONAL",
              message |-> IF bullish < bearish
                          THEN "Strong edge -> Sell PUT side (Bullish)"
                          ELSE "Strong edge -> Sell CALL side (Bearish)",
              delta |-> "0.30-0.40D"]
        ELSE [type |-> "DIRECTIONAL",
              message |-> IF bullish < bearish
                          THEN "Decent edge -> Sell PUT side (Bullish)"
                          ELSE "Decent edge -> Sell CALL side (Bearish)",
              delta |-> "0.30D"]

get_trade_recommendation(score, details, vix_blocked) ==
    IF vix_blocked
    THEN [type |-> "BLOCKED",
          message |-> "VIX too high - Do NOT sell options today",
          delta |-> "Stay flat"]
    ELSE
    LET bullish == Cardinality({k \in DOMAIN details : Contains(details[k], "Bullish")})
        bearish == Cardinality({k \in DOMAIN details : Contains(details[k], "Bearish")})
    IN  IF Abs(bullish - bearish) <= 1 \/ score < 650
        THEN [type |-> "FLAT",
              message |-> "Mixed signals -> Sell BOTH sides (Iron Condor / Strangle)",
              delta |-> "10-20D CE & PE"]
        ELSE IF score >= 800
        THEN [type |-> "DIRECTIONAL",
              message |-> IF bullish > bearish
                          THEN "Strong edge -> Sell PUT side (Bullish)"
                          ELSE "Strong edge -> Sell CALL side (Bearish)",
              delta |-> "0.30-0.40D"]
        ELSE [type |-> "DIRECTIONAL",
              message |-> IF bullish > bearish
                          THEN "Decent edge -> Sell PUT side (Bullish)"
                          ELSE "Decent edge -> Sell CALL side (Bearish)",
              delta |-> "0.30D"]

\* ------------------------------------------------- per-factor advisory
\* The "Option Action" texts, as the characters the vote tally searches
\* (the dash of the source is written -).
\* "Stay FLAT - no selling"
STAY_FLAT ==
    << "S", "t", "a", "y", " ", "F", "L", "A", "T", " ", "-", " ", "n", "o",
      " ", "s", "e", "l", "l", "i", "n", "g" >>

\* "Sell far OTM only / reduce size"
SELL_FAR_OTM ==
    << "S", "e", "l", "l", " ", "f", "a", "r", " ", "O", "T", "M", " ", "o",
      "n", "l", "y", " ", "/", " ", "r", "e", "d", "u", "c", "e", " ", "s",
      "i", "z", "e" >>

\* "Normal selling allowed"
NORMAL_SELLING ==
    << "N", "o", "r", "m", "a", "l", " ", "s", "e", "l", "l", "i", "n", "g",
      " ", "a", "l", "l", "o", "w", "e", "d" >>

\* "Sell PE (Put) - market likely to go UP"
SELL_PE ==
    << "S", "e", "l", "l", " ", "P", "E", " ", "(", "P", "u", "t", ")", " ",
      "-", " ", "m", "a", "r", "k", "e", "t", " ", "l", "i", "k", "e", "l",
      "y", " ", "t", "o", " ", "g", "o", " ", "U", "P" >>

\* "Sell CE (Call) - market likely to go DOWN"
SELL_CE ==
    << "S", "e", "l", "l", " ", "C", "E", " ", "(", "C", "a", "l", "l", ")",
      " ", "-", " ", "m", "a", "r", "k", "e", "t", " ", "l", "i", "k", "e",
      "l", "y", " ", "t", "o", " ", "g", "o", " ", "D", "O", "W", "N" >>

\* "Sell both sides - no directional edge"
SELL_BOTH ==
    << "S", "e", "l", "l", " ", "b", "o", "t", "h", " ", "s", "i", "d", "e",
      "s", " ", "-", " ", "n", "o", " ", "d", "i", "r", "e", "c", "t", "i",
      "o", "n", "a", "l", " ", "e", "d", "g", "e" >>

\* `needle in text`: Python's substring test on strings.
InText(needle, text) ==
    \E i \in 1..(Len(text) - Len(needle) + 1) :
        SubSeq(text, i, i + Len(needle) - 1) = needle

\* param_map: the display name of each factor, in the order of its items().
param_map ==
    << <<"Nifty Breadth", "Nifty Top 10">>, <<"OI Ratio (P/C)", "PCR / OI Ratio">>,
       <<"Advance-Decline", "Advance-Decline">>, <<"Sector Heatmap", "Sector Heatmap">> >>

\* A faulty variant of get_param_signals: a Bearish factor is told to sell both sides.
get_param_signals_no_bearish(details, vix_label, vix_blocked) ==
    LET row(p, r, s, a, d) ==
            [Parameter |-> p, Reading |-> r, Signal |-> s,
             Option_Action |-> a, Delta_Guidance |-> d]
        vix_row ==
            IF vix_blocked
            THEN row("VIX Filter", vix_label, "DANGER", STAY_FLAT, "-")
            ELSE IF Contains(vix_label, "Elevated")
            THEN row("VIX Filter", vix_label, "Caution", SELL_FAR_OTM, "< 0.15D")
            ELSE row("VIX Filter", vix_label, "Safe", NORMAL_SELLING, "Up to 0.30-0.40D")
        factor_row(i) ==
            LET text == IF param_map[i][1] \in DOMAIN details
                        THEN details[param_map[i][1]]
                        ELSE Label(None, "Neutral", "")
            IN  IF Contains(text, "Bullish")
                THEN row(param_map[i][2], text, "Bullish", SELL_PE, "0.25-0.35D PE")
                ELSE row(param_map[i][2], text, "Neutral", SELL_BOTH, "10-20D CE & PE")
    IN  <<vix_row>> \o [i \in 1..Len(param_map) |-> factor_row(i)]

get_param_signals(details, vix_label, vix_blocked) ==
    LET row(p, r, s, a, d) ==
            [Parameter |-> p, Reading |-> r, Signal |-> s,
             Option_Action |-> a, Delta_Guidance |-> d]
        vix_row ==
            IF vix_blocked
            THEN row("VIX Filter", vix_label, "DANGER", STAY_FLAT, "-")
            ELSE IF Contains(vix_label, "Elevated")
            THEN row("VIX Filter", vix_label, "Caution", SELL_FAR_OTM, "< 0.15D")
            ELSE row("VIX Filter", vix_label, "Safe", NORMAL_SELLING, "Up to 0.30-0.40D")
        factor_row(i) ==
            LET text == IF param_map[i][1] \in DOMAIN details
                        THEN details[param_map[i][1]]
                        ELSE Label(None, "Neutral", "")
            IN  IF Contains(text, "Bullish")
                THEN row(param_map[i][2], text, "Bullish", SELL_PE, "0.25-0.35D PE")
                ELSE IF Contains(text, "Bearish")
                THEN row(param_map[i][2], text, "Bearish", SELL_CE, "0.25-0.35D CE")
                ELSE row(param_map[i][2], text, "Neutral", SELL_BOTH, "10-20D CE & PE")
    IN  <<vix_row>> \o [i \in 1..Len(param_map) |-> factor_row(i)]

\* The texts get_param_signals can put in "Option Action".
OptionActions == {STAY_FLAT, SELL_FAR_OTM, NORMAL_SELLING, SELL_PE, SELL_CE, SELL_BOTH}

\* The vote a row casts: the if / elif chain on its "Option Action".
VoteOf ==
    [act \in OptionActions |->
        IF InText(<<"F", "L", "A", "T">>, act) \/ InText(<<"D", "A", "N", "G", "E", "R">>, act)
        THEN "FLAT"
        ELSE IF InText(<<"P", "E">>, act) THEN "Sell PE"
        ELSE IF InText(<<"C", "E">>, act) THEN "Sell CE"
        ELSE "Both sides"]

\* votes: the four counters after the loop over param_rows.
Votes(param_rows) ==
    [k \in {"Sell PE", "Sell CE", "Both sides", "FLAT"} |->
        Cardinality({i \in 1..Len(param_rows) : VoteOf[param_rows[i].Option_Action] = k})]

\* ------------------------------------------------------ one scoring run
\* vix_blocked = vix_adj == -999
VixBlocked(vix_adj) == vix_adj = -9990

\* A faulty variant of FinalScore: the adjustment is added even when it is the sentinel.
FinalScore_adds_sentinel(s_nifty, s_oi, s_adv, s_sec, vix_adj, vix_blocked) ==
    Max(0, s_nifty + s_oi + s_adv + s_sec + vix_adj)

\* final_score = max(0, s_nifty + s_oi + s_adv + s_sec + (vix_adj if not vix_blocked else 0))
FinalScore(s_nifty, s_oi, s_adv, s_sec, vix_adj, vix_blocked) ==
    Max(0, s_nifty + s_oi + s_adv + s_sec + (IF ~vix_blocked THEN vix_adj ELSE 0))

\* The body of the "Calculate" button handler up to the recommendation: the
\* handler's locals, as one record.
ScoreRun(vix, top10, oi_ratio, advances, declines, sectors) ==
    LET v == score_vix(vix)
        vix_blocked == VixBlocked(v.adj)
        n == score_nifty_breadth(top10)
        o == score_oi_ratio(oi_ratio)
        a == score_adv_dec(advances, declines)
        s == score_sectors(sectors)
        final_score == FinalScore(n.pts, o.pts, a.pts, s.pts, v.adj, vix_blocked)
        details == [k \in DetailKeys |->
                      CASE k = "Nifty Breadth" -> n.label
                        [] k = "OI Ratio (P/C)" -> o.label
                        [] k = "Advance-Decline" -> a.label
                        [] k = "Sector Heatmap" -> s.label]
        param_rows == get_param_signals(details, v.label, vix_blocked)
    IN  [vix |-> vix, top10 |-> top10, oi_ratio |-> oi_ratio,
         advances |-> advances, declines |-> declines, sectors |-> sectors,
         vix_adj |-> v.adj, vix_label |-> v.label, vix_blocked |-> vix_blocked,
         s_nifty |-> n.pts, l_nifty |-> n.label, n_up |-> n.up, n_down |-> n.down,
         s_oi |-> o.pts, l_oi |-> o.label,
         s_adv |-> a.pts, l_adv |-> a.label,
         s_sec |-> s.pts, l_sec |-> s.label, sec_up |-> s.bull, sec_dn |-> s.bear,
         final_score |-> final_score, details |-> details,
         trade |-> get_trade_recommendation(final_score, details, vix_blocked),
         param_rows |-> param_rows, votes |-> Votes(param_rows)]

\* The row a scoring run appends to st.session_state.history. The time of day
\* is display text no rule reads; it is carried as an opaque token.
HistoryRow(r) ==
    [Time |-> "HH:MM:SS", VIX |-> OrNA(r.vix), OI |-> OrNA(r.oi_ratio),
     Score |-> r.final_score, Signal |-> r.trade.message, Delta |-> r.trade.delta]

\* No scoring run has been made yet.
NoReport == [type |-> "none"]

\* ------------------------------------------- the engine called directly
\* How a Python call ends: it returns a value, or it raises.
Ok(v) == [raised |-> "", value |-> v]
Raise(e) == [raised |-> e, value |-> None]

\* ratio = num / den; math.log(ratio): a zero denominator raises
\* ZeroDivisionError, a ratio that is not positive raises ValueError.
LogOfRatio(num, den, v) ==
    IF den = 0 THEN Raise("ZeroDivisionError")
    ELSE IF num = 0 \/ (num > 0) # (den > 0) THEN Raise("ValueError")
    ELSE Ok(v)

\* score_vix compares only after its `vix is None` test.
call_score_vix(vix) == Ok(score_vix(vix))

\* The generator expressions test `v is not None` before comparing, and the
\* only division is by the literal 10.
call_score_nifty_breadth(stock_changes) == Ok(score_nifty_breadth(stock_changes))

\* score_oi_ratio compares only after its `ratio is None` test.
call_score_oi_ratio(ratio) == Ok(score_oi_ratio(ratio))

\* advances / declines and its logarithm are evaluated when none of the three
\* zero branches returned first.
call_score_adv_dec(advances, declines) ==
    IF (advances = 0 /\ declines = 0) \/ declines = 0 \/ advances = 0
    THEN Ok(score_adv_dec(advances, declines))
    ELSE LogOfRatio(advances, declines, score_adv_dec(advances, declines))

\* bull / bear and its logarithm are evaluated under `bull > 0 and bear > 0`.
call_score_sectors(sector_changes) ==
    LET bull == CountUp(sector_changes)
        bear == CountDown(sector_changes)
    IN  IF bull + bear # 0 /\ bull > 0 /\ bear > 0
        THEN LogOfRatio(bull, bear, score_sectors(sector_changes))
        ELSE Ok(score_sectors(sector_changes))

\* get_trade_recommendation compares numbers and searches strings only.
call_get_trade_recommendation(score, details, vix_blocked) ==
    Ok(get_trade_recommendation(score, details, vix_blocked))

\* script.py. `pcr > 1` is the first use of pcr and nothing tests it for
\* None before: ordering None against an int raises TypeError. The value
\* carries the local `signals` next to the returned sentence.
trading_signal(nifty_direction, pcr, adv_dec, sector_direction) ==
    IF pcr = None THEN Raise("TypeError")
    ELSE
    LET pcr_signal == IF pcr > 1000 THEN "Bullish"
                      ELSE IF pcr < 700 THEN "Bearish"
                      ELSE "Neutral"
        ad_signal == IF adv_dec.advances > adv_dec.declines THEN "Bullish"
                     ELSE IF adv_dec.advances < adv_dec.declines THEN "Bearish"
                     ELSE "Neutral"
        signals == <<nifty_direction, pcr_signal, ad_signal, sector_direction>>
        bullish_count == Cardinality({i \in 1..4 : signals[i] = "Bullish"})
        bearish_count == Cardinality({i \in 1..4 : signals[i] = "Bearish"})
    IN  Ok([signals |-> signals,
            suggestion |->
                IF bullish_count > bearish_count
                THEN "Trade Suggestion: Bullish -> Sell Puts (Bull Put Spread)"
                ELSE IF bearish_count > bullish_count
                THEN "Trade Suggestion: Bearish -> Sell Calls (Bear Call Spread)"
                ELSE "Trade Suggestion: Neutral -> Iron Condor / Short Straddle"])

\* A call of an engine function that has not returned yet, and the same call
\* once it ended.
Pending(fn, args) == [type |-> "call", fn |-> fn, args |-> args,
                      returned |-> FALSE, outcome |-> Ok(None)]
Ended(call, outcome) == [call EXCEPT !.returned = TRUE, !.outcome = outcome]

\* ------------------------------------------- override panel and its merge
\* The override widgets' first values: the fetched value, or 0 where the
\* fetch gave none (app.py:591-665).
Defaults(f) ==
    [ov_vix |-> IF Truthy(f.vix) THEN f.vix ELSE 0,
     ov_put_oi |-> IF f.oi_data # NoData THEN f.oi_data[2] ELSE 0,
     ov_call_oi |-> IF f.oi_data # NoData THEN f.oi_data[3] ELSE 0,
     ov_top10 |-> [n \in Range(NIFTY_TOP10) |->
                     IF Get(f.top10, n) # None THEN Get(f.top10, n) ELSE 0],
     ov_sec |-> [s \in Range(SECTOR_INDICES) |->
                     IF Get(f.sectors, s) # None THEN Get(f.sectors, s) ELSE 0],
     use_live_pcr |-> TRUE,
     manual_pcr_fallback |-> 0,
     manual_pcr_direct |-> 0,
     advances |-> 0,
     declines |-> 0]

\* vix_tuple[0] after the merge: the widget's value, 0.0 read as missing.
MergedVix(s) == IF s.ov_vix # 0 THEN s.ov_vix ELSE None

\* top10 and sectors after the merge: the widgets' values, key by key.
MergedTop10(s) == [n \in Range(NIFTY_TOP10) |-> Get(s.ov_top10, n)]
MergedSectors(s) == [k \in Range(SECTOR_INDICES) |-> Get(s.ov_sec, k)]

\* oi_data after the merge.
MergedOiData(s) ==
    IF s.ov_put_oi > 0 /\ s.ov_call_oi > 0
    THEN <<RoundDiv(s.ov_put_oi * 1000, s.ov_call_oi), s.ov_put_oi, s.ov_call_oi>>
    ELSE NoData

\* oi_data[0] if oi_data else None
OiDataRatio(oi_data) == IF oi_data # NoData THEN oi_data[1] ELSE None

\* The "PCR Source" block of render_live_scoring: which number is scored.
PcrSource(use_live_pcr, live_pcr, oi_data, manual_pcr_fallback, manual_pcr_direct) ==
    IF use_live_pcr
    THEN IF live_pcr # None THEN live_pcr
         ELSE IF Truthy(OiDataRatio(oi_data)) THEN OiDataRatio(oi_data)
         ELSE manual_pcr_fallback
    ELSE IF Truthy(OiDataRatio(oi_data)) THEN OiDataRatio(oi_data)
         ELSE manual_pcr_direct

\* The manual PCR inputs exist only in script runs that render them; a
\* widget that is not rendered loses its value and starts again from 0.0.
FallbackRendered(s, f) ==
    s.use_live_pcr /\ f.live_pcr = None /\ ~Truthy(OiDataRatio(MergedOiData(s)))
DirectRendered(s, f) ==
    ~s.use_live_pcr /\ ~Truthy(OiDataRatio(MergedOiData(s)))
Rerun(s, f) ==
    [s EXCEPT !.manual_pcr_fallback = IF FallbackRendered(s, f) THEN @ ELSE 0,
              !.manual_pcr_direct = IF DirectRendered(s, f) THEN @ ELSE 0]

\* The put/call ratio the scoring run of this script run would use.
OiRatioUsed(s, f) ==
    PcrSource(s.use_live_pcr, f.live_pcr, MergedOiData(s),
              s.manual_pcr_fallback, s.manual_pcr_direct)

\* ----------------------------------------------------------------- actions
\* Every action is one run of the script: a widget interaction reruns it,
\* and only the run the "Calculate" button triggers scores.

\* The user types v into the "VIX Value" override.
SetVix(v) ==
    /\ ss' = Rerun([ss EXCEPT !.ov_vix = v], fetched)
    /\ calculated' = FALSE
    /\ UNCHANGED <<fetched, history, report>>

\* The user types v into the override of basket symbol n.
SetTop10(n, v) ==
    /\ ss' = Rerun([ss EXCEPT !.ov_top10[n] = v], fetched)
    /\ calculated' = FALSE
    /\ UNCHANGED <<fetched, history, report>>

\* The user types v into the override of sector k.
SetSector(k, v) ==
    /\ ss' = Rerun([ss EXCEPT !.ov_sec[k] = v], fetched)
    /\ calculated' = FALSE
    /\ UNCHANGED <<fetched, history, report>>

\* The user types v into the "Put OI" override.
SetPutOI(v) ==
    /\ ss' = Rerun([ss EXCEPT !.ov_put_oi = v], fetched)
    /\ calculated' = FALSE
    /\ UNCHANGED <<fetched, history, report>>

\* The user types v into the "Call OI" override.
SetCallOI(v) ==
    /\ ss' = Rerun([ss EXCEPT !.ov_call_oi = v], fetched)
    /\ calculated' = FALSE
    /\ UNCHANGED <<fetched, history, report>>

\* The user flips the "Use Live NSE PCR" toggle.
ToggleLivePcr ==
    /\ ss' = Rerun([ss EXCEPT !.use_live_pcr = ~@], fetched)
    /\ calculated' = FALSE
    /\ UNCHANGED <<fetched, history, report>>

\* The user types v into whichever manual PCR input this script run shows.
SetManualPcr(v) ==
    /\ FallbackRendered(ss, fetched) \/ DirectRendered(ss, fetched)
    /\ ss' = IF FallbackRendered(ss, fetched)
             THEN [ss EXCEPT !.manual_pcr_fallback = v]
             ELSE [ss EXCEPT !.manual_pcr_direct = v]
    /\ calculated' = FALSE
    /\ UNCHANGED <<fetched, history, report>>

\* The user types the market-wide advances / declines.
SetAdvances(v) ==
    /\ ss' = Rerun([ss EXCEPT !.advances = v], fetched)
    /\ calculated' = FALSE
    /\ UNCHANGED <<fetched, history, report>>

SetDeclines(v) ==
    /\ ss' = Rerun([ss EXCEPT !.declines = v], fetched)
    /\ calculated' = FALSE
    /\ UNCHANGED <<fetched, history, report>>

\* fetch_live_nse_pcr is cached for 60 s only: a later script run may see
\* another live value, or none.
RefetchLivePcr(v) ==
    /\ v # fetched.live_pcr
    /\ fetched' = [fetched EXCEPT !.live_pcr = v]
    /\ ss' = Rerun(ss, fetched')
    /\ calculated' = FALSE
    /\ UNCHANGED <<history, report>>

\* A faulty variant of Calculate: the new row is put at the head of the log.
Calculate_prepends ==
    /\ Len(history) < MaxHist
    /\ LET r == ScoreRun(MergedVix(ss), MergedTop10(ss), OiRatioUsed(ss, fetched),
                         ss.advances, ss.declines, MergedSectors(ss))
       IN  /\ report' = r
           /\ history' = <<HistoryRow(r)>> \o history
    /\ calculated' = TRUE
    /\ UNCHANGED <<fetched, ss>>

\* A faulty variant of Calculate: a run made with rows already in the log scores the
\* advance/decline factor as if nothing had been entered.
Calculate_reads_history ==
    /\ Len(history) < MaxHist
    /\ LET r == ScoreRun(MergedVix(ss), MergedTop10(ss), OiRatioUsed(ss, fetched),
                         ss.advances, ss.declines, MergedSectors(ss))
           q == ScoreRun(MergedVix(ss), MergedTop10(ss), OiRatioUsed(ss, fetched),
                         0, 0, MergedSectors(ss))
           out == IF history = <<>> THEN r
                  ELSE [r EXCEPT !.s_adv = q.s_adv, !.l_adv = q.l_adv,
                                 !.final_score = q.final_score,
                                 !.details = q.details, !.trade = q.trade]
       IN  /\ report' = out
           /\ history' = Append(history, HistoryRow(out))
    /\ calculated' = TRUE
    /\ UNCHANGED <<fetched, ss>>

\* The user presses "Calculate Sentiment & Get Trade Signal".
Calculate ==
    /\ Len(history) < MaxHist
    /\ LET r == ScoreRun(MergedVix(ss), MergedTop10(ss), OiRatioUsed(ss, fetched),
                         ss.advances, ss.declines, MergedSectors(ss))
       IN  /\ report' = r
           /\ history' = Append(history, HistoryRow(r))
    /\ calculated' = TRUE
    /\ UNCHANGED <<fetched, ss>>

\* The user presses "Clear History" (shown only while the log has rows).
ClearHistory ==
    /\ history # <<>>
    /\ history' = <<>>
    /\ calculated' = FALSE
    /\ UNCHANGED <<fetched, ss, report>>

\* ------------------------------------------------------------ input values
\* A mapping over `keys` whose first nPos values are positive, the next nNeg
\* negative, the next nNone missing, and the rest exactly 0.
Pattern(keys, nPos, nNeg, nNone) ==
    [k \in Range(keys) |->
        LET i == CHOOSE j \in 1..Len(keys) : keys[j] = k
        IN  IF i <= nPos THEN 125
            ELSE IF i <= nPos + nNeg THEN -80
            ELSE IF i <= nPos + nNeg + nNone THEN None
            ELSE 0]

\* What the fetchers can return in the session Spec explores.
FetchedVix == {None, 1800}
FetchedTop10 == {EmptyDict, Pattern(NIFTY_TOP10, 7, 1, 2)}
FetchedSectors == {EmptyDict, Pattern(SECTOR_INDICES, 2, 6, 1)}
FetchedOiData == {NoData, <<1500, 3, 2>>}
LivePcr == {None, 1200}

\* What the user types in the session Spec explores.
VixEdits == {0, 2500}
PctEdits == {-150, 0}
EditNames == {NIFTY_TOP10[1]}
EditSectors == {SECTOR_INDICES[1]}
PutEdits == {0, 1}
CallEdits == {0, 2}
ManualPcrEdits == {600}
AdvEdits == {30}
DecEdits == {20}

\* --------------------------------------------------------- specifications
\* The session from its first script run: the fetchers' results, the widgets
\* at their defaults, an empty log.
Init ==
    /\ fetched \in [vix : FetchedVix, top10 : FetchedTop10, sectors : FetchedSectors,
                    oi_data : FetchedOiData, live_pcr : LivePcr]
    /\ ss = Defaults(fetched)
    /\ history = <<>>
    /\ calculated = FALSE
    /\ report = NoReport

\* Spec follows the widgets up to the session's first scoring run: each edit
\* below is the widget's action, taken while no run has been made. After the
\* first run the user can only score again or clear the log.
BeforeFirstRun == report = NoReport

FirstSetVix(v) == BeforeFirstRun /\ SetVix(v)
FirstSetTop10(n, v) == BeforeFirstRun /\ SetTop10(n, v)
FirstSetSector(k, v) == BeforeFirstRun /\ SetSector(k, v)
FirstSetPutOI(v) == BeforeFirstRun /\ SetPutOI(v)
FirstSetCallOI(v) == BeforeFirstRun /\ SetCallOI(v)
FirstToggleLivePcr == BeforeFirstRun /\ ToggleLivePcr
FirstSetManualPcr(v) == BeforeFirstRun /\ SetManualPcr(v)
FirstSetAdvances(v) == BeforeFirstRun /\ SetAdvances(v)
FirstSetDeclines(v) == BeforeFirstRun /\ SetDeclines(v)
FirstRefetchLivePcr(v) == BeforeFirstRun /\ RefetchLivePcr(v)

Next ==
    \/ \E v \in VixEdits : FirstSetVix(v)
    \/ \E n \in EditNames, v \in PctEdits : FirstSetTop10(n, v)
    \/ \E k \in EditSectors, v \in PctEdits : FirstSetSector(k, v)
    \/ \E v \in PutEdits : FirstSetPutOI(v)
    \/ \E v \in CallEdits : FirstSetCallOI(v)
    \/ FirstToggleLivePcr
    \/ \E v \in ManualPcrEdits : FirstSetManualPcr(v)
    \/ \E v \in AdvEdits : FirstSetAdvances(v)
    \/ \E v \in DecEdits : FirstSetDeclines(v)
    \/ \E v \in LivePcr : FirstRefetchLivePcr(v)
    \/ Calculate
    \/ ClearHistory

Spec == Init /\ [][Next]_vars

\* Every fetch failed.
AllFailed ==
    [vix |-> None, top10 |-> EmptyDict, sectors |-> EmptyDict,
     oi_data |-> NoData, live_pcr |-> None]

\* SpecScore: scoring runs over a grid of inputs. The widgets hold what the
\* user typed; the put/call ratio is the live one.
ScoreVix == {0, 1400, 1500, 1501, 2000, 2001}
ScorePcr == {0, 699, 700, 1000, 1001, 1167, 2000}
ScoreAdvDec == {<<0, 0>>, <<20, 0>>, <<0, 20>>, <<30, 20>>, <<20, 30>>, <<21, 20>>}
ScoreBasket == {c \in (0..10) \X (0..10) : c[1] + c[2] <= 10}
ScoreSectors == {<<0, 0>>, <<5, 0>>, <<0, 3>>, <<5, 5>>, <<7, 3>>, <<2, 8>>}

InitScore ==
    /\ \E p \in ScorePcr : fetched = [AllFailed EXCEPT !.live_pcr = p]
    /\ \E v \in ScoreVix, b \in ScoreBasket, a \in ScoreAdvDec, c \in ScoreSectors :
         ss = [Defaults(AllFailed) EXCEPT
                 !.ov_vix = v,
                 !.ov_top10 = Pattern(NIFTY_TOP10, b[1], b[2], 0),
                 !.ov_sec = Pattern(SECTOR_INDICES, c[1], c[2], 0),
                 !.advances = a[1],
                 !.declines = a[2]]
    /\ history = <<>>
    /\ calculated = FALSE
    /\ report = NoReport

NextScore ==
    \/ Calculate
    \/ ClearHistory

SpecScore == InitScore /\ [][NextScore]_vars

\* SpecHistory: the log over runs whose inputs change between runs.
HistVix == {0, 1800, 2500}
HistAdv == {0, 30}

InitHistory ==
    /\ fetched = AllFailed
    /\ ss = Defaults(fetched)
    /\ history = <<>>
    /\ calculated = FALSE
    /\ report = NoReport

NextHistory ==
    \/ \E v \in HistVix : SetVix(v)
    \/ \E v \in HistAdv : SetAdvances(v)
    \/ ToggleLivePcr
    \/ \E v \in ManualPcrEdits : SetManualPcr(v)
    \/ Calculate
    \/ ClearHistory

SpecHistory == InitHistory /\ [][NextHistory]_vars

\* SpecEngine: one direct call of one engine function, the way script.py
\* calls trading_signal; report holds the call and then how it ended. The
\* arguments include the missing and degenerate values the dashboard's merge
\* never passes on.
EngineVix == {None} \cup ScoreVix
EngineRatio == {None, 0, 333, 699, 700, 850, 1000, 1001, 1167, 1499, 1500, 1501, 2000, 3000}
EngineCounts == {0, 1, 9, 10, 11, 20, 21, 22, 30}
EngineMaps(keys) ==
    {EmptyDict} \cup
    {Pattern(keys, c[1], c[2], c[3]) :
        c \in {t \in (0..10) \X (0..10) \X (0..10) : t[1] + t[2] + t[3] <= 10}}
Directions == {"Bullish", "Bearish", "Neutral"}
EngineScores == {0, 649, 650, 799, 800, 1000}
EngineDetails == [DetailKeys -> {Label(150, w, "") : w \in Directions}]
EngineAdvDec == {[advances |-> 30, declines |-> 20], [advances |-> 20, declines |-> 30],
                 [advances |-> 20, declines |-> 20], [advances |-> 0, declines |-> 0]}

EngineCalls ==
    {Pending("score_vix", <<v>>) : v \in EngineVix}
    \cup {Pending("score_nifty_breadth", <<m>>) : m \in EngineMaps(NIFTY_TOP10)}
    \cup {Pending("score_oi_ratio", <<r>>) : r \in EngineRatio}
    \cup {Pending("score_adv_dec", <<a, d>>) : a \in EngineCounts, d \in EngineCounts}
    \cup {Pending("score_sectors", <<m>>) : m \in EngineMaps(SECTOR_INDICES)}
    \cup {Pending("get_trade_recommendation", <<s, d, b>>) :
            s \in EngineScores, d \in EngineDetails, b \in BOOLEAN}
    \cup {Pending("trading_signal", <<n, p, a, s>>) :
            n \in Directions, p \in EngineRatio, a \in EngineAdvDec, s \in Directions}

InitEngine ==
    /\ fetched = AllFailed
    /\ ss = Defaults(fetched)
    /\ history = <<>>
    /\ calculated = FALSE
    /\ report \in EngineCalls

\* The call in `report` is a pending call of fn.
Calling(fn) == report.type = "call" /\ report.fn = fn /\ ~report.returned

Call_score_vix ==
    /\ Calling("score_vix")
    /\ report' = Ended(report, call_score_vix(report.args[1]))
    /\ UNCHANGED <<fetched, ss, history, calculated>>

Call_score_nifty_breadth ==
    /\ Calling("score_nifty_breadth")
    /\ report' = Ended(report, call_score_nifty_breadth(report.args[1]))
    /\ UNCHANGED <<fetched, ss, history, calculated>>

Call_score_oi_ratio ==
    /\ Calling("score_oi_ratio")
    /\ report' = Ended(report, call_score_oi_ratio(report.args[1]))
    /\ UNCHANGED <<fetched, ss, history, calculated>>

Call_score_adv_dec ==
    /\ Calling("score_adv_dec")
    /\ report' = Ended(report, call_score_adv_dec(report.args[1], report.args[2]))
    /\ UNCHANGED <<fetched, ss, history, calculated>>

Call_score_sectors ==
    /\ Calling("score_sectors")
    /\ report' = Ended(report, call_score_sectors(report.args[1]))
    /\ UNCHANGED <<fetched, ss, history, calculated>>

Call_get_trade_recommendation ==
    /\ Calling("get_trade_recommendation")
    /\ report' = Ended(report, call_get_trade_recommendation(
                                   report.args[1], report.args[2], report.args[3]))
    /\ UNCHANGED <<fetched, ss, history, calculated>>

Call_trading_signal ==
    /\ Calling("trading_signal")
    /\ report' = Ended(report, trading_signal(report.args[1], report.args[2],
                                              report.args[3], report.args[4]))
    /\ UNCHANGED <<fetched, ss, history, calculated>>

NextEngine ==
    \/ Call_score_vix
    \/ Call_score_nifty_breadth
    \/ Call_score_oi_ratio
    \/ Call_score_adv_dec
    \/ Call_score_sectors
    \/ Call_get_trade_recommendation
    \/ Call_trading_signal

SpecEngine == InitEngine /\ [][NextEngine]_vars

\* The call in `report` is a call of fn that returned a value.
Returned(fn) ==
    report.type = "call" /\ report.fn = fn /\ report.returned /\ report.outcome.raised = ""

\* ------------------------------------------------------------------ claims
\* The direction tally over the four additive factor labels of a report.
LabelsOf(r) == <<r.l_nifty, r.l_oi, r.l_adv, r.l_sec>>
Tally(r, word) == Cardinality({i \in 1..4 : LabelsOf(r)[i].word = word})

\* C1: a scoring run is BLOCKED (delta "Stay flat") exactly when the
\* volatility index it used is known and above 20, whatever the other
\* inputs and the final score are.
C1_VixBlocks ==
    report # NoReport =>
        /\ (report.trade.type = "BLOCKED") <=> (report.vix # None /\ report.vix > 2000)
        /\ report.trade.type = "BLOCKED" => report.trade.delta = "Stay flat"

\* A blocked run whose four factors are all at their maximum.
C1_Witness ==
    /\ report # NoReport
    /\ report.vix > 2000
    /\ report.final_score = 1000
    /\ report.trade.type = "BLOCKED"

C3_Ranges ==
    report # NoReport =>
        /\ report.s_nifty \in 0..300
        /\ report.s_oi \in 0..300
        /\ report.s_adv \in 0..200
        /\ report.s_sec \in 0..200
        /\ report.final_score \in 0..1000

\* A run with a put/call ratio of 0, where only the cap keeps the
\* open-interest points at 30, and a final score of 100.
C3_Witness ==
    /\ report # NoReport
    /\ report.oi_ratio = 0
    /\ report.s_oi = 300
    /\ report.final_score = 1000

\* C4: a run that is not blocked is FLAT (delta "10-20D CE & PE") exactly
\* when the bullish and bearish counts over the four additive labels differ
\* by at most 1 or the final score is below 65.
C4_Flat ==
    (report # NoReport /\ ~report.vix_blocked) =>
        LET gap == Abs(Tally(report, "Bullish") - Tally(report, "Bearish"))
        IN  /\ (report.trade.type = "FLAT") <=> (gap <= 1 \/ report.final_score < 650)
            /\ report.trade.type = "FLAT" => report.trade.delta = "10-20D CE & PE"

\* A 2-bullish / 2-bearish run with a score of 80 or more, still FLAT.
C4_Witness ==
    /\ report # NoReport
    /\ ~report.vix_blocked
    /\ Tally(report, "Bullish") = 2
    /\ Tally(report, "Bearish") = 2
    /\ report.final_score >= 800
    /\ report.trade.type = "FLAT"

\* C5: a run that is not blocked, whose counts differ by 2 or more and whose
\* score is 65 or more, is DIRECTIONAL: the PUT side when the bullish count
\* is the larger and the CALL side otherwise, with delta "0.30-0.40D"
\* (strong edge) from 80 up and "0.30D" (decent edge) below 80.
C5_Directional ==
    (/\ report # NoReport
     /\ ~report.vix_blocked
     /\ Abs(Tally(report, "Bullish") - Tally(report, "Bearish")) >= 2
     /\ report.final_score >= 650) =>
        LET put == Tally(report, "Bullish") > Tally(report, "Bearish")
            strong == report.final_score >= 800
        IN  /\ report.trade.type = "DIRECTIONAL"
            /\ report.trade.delta = IF strong THEN "0.30-0.40D" ELSE "0.30D"
            /\ report.trade.message =
                 IF strong
                 THEN IF put THEN "Strong edge -> Sell PUT side (Bullish)"
                             ELSE "Strong edge -> Sell CALL side (Bearish)"
                 ELSE IF put THEN "Decent edge -> Sell PUT side (Bullish)"
                             ELSE "Decent edge -> Sell CALL side (Bearish)"

\* Four Bullish factors and a score of 90: DIRECTIONAL, PUT side, strong edge.
C5_Witness ==
    /\ report # NoReport
    /\ Tally(report, "Bullish") = 4
    /\ report.final_score = 900
    /\ report.trade.type = "DIRECTIONAL"
    /\ report.trade.message = "Strong edge -> Sell PUT side (Bullish)"
    /\ report.trade.delta = "0.30-0.40D"

\* C10: basket breadth over the 10 symbols: no symbol up or down gives 15
\* Neutral; 6 or more up gives (up/10)*30 Bullish; otherwise 6 or more down
\* gives (down/10)*30 Bearish; every other pair of counts gives 15 Neutral.
C10_BasketBreadth ==
    report # NoReport =>
        LET up == Cardinality({n \in DOMAIN report.top10 :
                                 report.top10[n] # None /\ report.top10[n] > 0})
            down == Cardinality({n \in DOMAIN report.top10 :
                                   report.top10[n] # None /\ report.top10[n] < 0})
        IN  /\ report.n_up = up /\ report.n_down = down
            /\ IF up = 0 /\ down = 0
               THEN report.s_nifty = 150 /\ report.l_nifty.word = "Neutral"
               ELSE IF up >= 6
               THEN report.s_nifty = 30 * up /\ report.l_nifty.word = "Bullish"
               ELSE IF down >= 6
               THEN report.s_nifty = 30 * down /\ report.l_nifty.word = "Bearish"
               ELSE report.s_nifty = 150 /\ report.l_nifty.word = "Neutral"

\* All 10 symbols up: 30.0 points, Bullish.
C10_Witness ==
    /\ report # NoReport
    /\ report.n_up = 10
    /\ report.s_nifty = 300
    /\ report.l_nifty.word = "Bullish"

\* C6: a run with every indicator missing takes the Neutral fallback in
\* every factor (basket 15, open-interest 15 "data unavailable",
\* advance/decline 10, sector 10) and scores 50.
AllMissing == fetched = AllFailed /\ ss = Defaults(AllFailed)

C6_AllMissingNeutral ==
    (calculated /\ AllMissing) =>
        /\ report.s_nifty = 150 /\ report.l_nifty.word = "Neutral"
        /\ report.s_oi = 150 /\ report.l_oi.word = "Neutral"
        /\ report.l_oi.note = "data unavailable"
        /\ report.s_adv = 100 /\ report.l_adv.word = "Neutral"
        /\ report.s_sec = 100 /\ report.l_sec.word = "Neutral"
        /\ report.final_score = 500

\* C7: a scoring run appends exactly its own row (score, message, delta) to
\* the end of the log and leaves the earlier rows as they were; a clear
\* empties the log; no other step changes the log.
C7_HistoryLog ==
    [][/\ calculated' =>
            /\ Len(history') = Len(history) + 1
            /\ SubSeq(history', 1, Len(history)) = history
            /\ history'[Len(history')].Score = report'.final_score
            /\ history'[Len(history')].Signal = report'.trade.message
            /\ history'[Len(history')].Delta = report'.trade.delta
       /\ ClearHistory => Len(history') = 0
       /\ (~Calculate /\ ~ClearHistory) => history' = history]_vars

\* Two runs with different outcomes, logged in the order they were made:
\* the blocked run first, the current (unblocked) run last.
C7_Witness ==
    /\ calculated
    /\ Len(history) = 2
    /\ history[1].Delta = "Stay flat"
    /\ history[2].Delta # "Stay flat"
    /\ history[2].Score = report.final_score

\* C8: the value a scoring run uses for an indicator is the one the user
\* entered in its override (for the put/call ratio: put-OI and call-OI both
\* above 0), whatever was retrieved for that indicator.
OiOverrideEdited ==
    /\ ss.ov_put_oi > 0 /\ ss.ov_call_oi > 0
    /\ <<ss.ov_put_oi, ss.ov_call_oi>> #
         <<Defaults(fetched).ov_put_oi, Defaults(fetched).ov_call_oi>>

C8_ManualPrecedence ==
    calculated =>
        /\ ss.ov_vix # 0 => report.vix = ss.ov_vix
        /\ report.top10 = ss.ov_top10
        /\ report.sectors = ss.ov_sec
        /\ OiOverrideEdited =>
             report.oi_ratio = RoundDiv(ss.ov_put_oi * 1000, ss.ov_call_oi)

\* C9: a run's report is a function of its inputs alone: a run given the same
\* volatility index, basket, put/call ratio, advances, declines and sectors
\* as the run before it produces the same points, labels, final score and
\* recommendation, whatever was logged or changed in between.
InputsOf(r) == <<r.vix, r.top10, r.oi_ratio, r.advances, r.declines, r.sectors>>

OiFormula(r) ==
    IF r > 1000 THEN Min(30000, (r - 1000) * 30 + 15000)
    ELSE IF r < 700 THEN Min(30000, (1000 - r) * 30 + 15000)
    ELSE 15000
OiWord(r) == IF r > 1000 THEN "Bullish" ELSE IF r < 700 THEN "Bearish" ELSE "Neutral"

\* C11, as stated: a known put/call ratio r scores exactly
\* min(30, (r-1)*30+15) points Bullish for r > 1, min(30, (1-r)*30+15) points
\* Bearish for r < 0.7 and 15 points Neutral for 0.7 <= r <= 1, and
\* trading_signal counts r by the same thresholds.
C11_OiPointsExact ==
    /\ (Returned("score_oi_ratio") /\ report.args[1] # None) =>
         /\ report.outcome.value.pts * 100 = OiFormula(report.args[1])
         /\ report.outcome.value.label.word = OiWord(report.args[1])
    /\ Returned("trading_signal") =>
         report.outcome.value.signals[2] = OiWord(report.args[2])

\* C11, amended: the points are the formula's value rounded to one decimal
\* (no further than 0.05 from it, on the grid of tenths); the directions and
\* both boundaries are as stated.
C11_OiPointsRounded ==
    /\ (Returned("score_oi_ratio") /\ report.args[1] # None) =>
         /\ Abs(report.outcome.value.pts * 100 - OiFormula(report.args[1])) <= 50
         /\ report.outcome.value.label.pts = report.outcome.value.pts
         /\ report.outcome.value.label.word = OiWord(report.args[1])
         /\ report.args[1] \in {700, 1000} =>
              /\ report.outcome.value.pts = 150
              /\ report.outcome.value.label.word = "Neutral"
    /\ Returned("trading_signal") =>
         report.outcome.value.signals[2] = OiWord(report.args[2])

\* A ratio of 1.001, just above the boundary: Bullish, and 15.03 points of the
\* formula returned as 15.0.
C11_Witness ==
    /\ Returned("score_oi_ratio")
    /\ report.args[1] = 1001
    /\ report.outcome.value.pts = 150
    /\ report.outcome.value.label.word = "Bullish"

\* 20 * min(1, |ln(a / b)|) points, in millionths of a tenth of a point.
StrengthFormula(a, b) == 200 * Min(1000000, Abs(LnTable[a] - LnTable[b]))

\* C12: score_adv_dec for advances, declines >= 0: both 0 gives 10 Neutral;
\* declines = 0 < advances gives 20 Bullish; advances = 0 < declines gives 20
\* Bearish; otherwise advances/declines > 1.1 is Bullish and < 0.9 is Bearish,
\* both with 20 * min(1, |ln ratio|) points to one decimal (30 and 20 give 8.1
\* Bullish), and a ratio from 0.9 to 1.1 gives a flat 10 Neutral.
C12_AdvDec ==
    Returned("score_adv_dec") =>
        LET a == report.args[1]
            d == report.args[2]
            pts == report.outcome.value.pts
            word == report.outcome.value.label.word
            strong == Abs(pts * 1000000 - StrengthFormula(a, d)) <= 500000
        IN  /\ report.outcome.value.label.pts = pts
            /\ (a = 0 /\ d = 0) => (pts = 100 /\ word = "Neutral")
            /\ (a > 0 /\ d = 0) => (pts = 200 /\ word = "Bullish")
            /\ (a = 0 /\ d > 0) => (pts = 200 /\ word = "Bearish")
            /\ (a > 0 /\ d > 0 /\ 10 * a > 11 * d) => (word = "Bullish" /\ strong)
            /\ (a > 0 /\ d > 0 /\ 10 * a < 9 * d) => (word = "Bearish" /\ strong)
            /\ (a > 0 /\ d > 0 /\ 10 * a <= 11 * d /\ 10 * a >= 9 * d) =>
                 (pts = 100 /\ word = "Neutral")
            /\ (a = 30 /\ d = 20) => (pts = 81 /\ word = "Bullish")

\* 30 advances against 20 declines: 8.1 points, Bullish.
C12_Witness ==
    /\ Returned("score_adv_dec")
    /\ report.args = <<30, 20>>
    /\ report.outcome.value.pts = 81
    /\ report.outcome.value.label.word = "Bullish"

\* C13: score_sectors over bull and bear, the numbers of sectors with a
\* positive and a negative change: both 0 gives 10 Neutral; exactly one side
\* at 0 gives a flat 20 with the direction of the other side; both above 0
\* gives Bullish for bull/bear > 1.1, Bearish for bull/bear < 0.9 and 10
\* Neutral otherwise.
C13_Sectors ==
    Returned("score_sectors") =>
        LET bull == Cardinality({k \in DOMAIN report.args[1] :
                                    report.args[1][k] # None /\ report.args[1][k] > 0})
            bear == Cardinality({k \in DOMAIN report.args[1] :
                                    report.args[1][k] # None /\ report.args[1][k] < 0})
            pts == report.outcome.value.pts
            word == report.outcome.value.label.word
        IN  /\ (bull = 0 /\ bear = 0) => (pts = 100 /\ word = "Neutral")
            /\ (bull > 0 /\ bear = 0) => (pts = 200 /\ word = "Bullish")
            /\ (bull = 0 /\ bear > 0) => (pts = 200 /\ word = "Bearish")
            /\ (bull > 0 /\ bear > 0 /\ 10 * bull > 11 * bear) => word = "Bullish"
            /\ (bull > 0 /\ bear > 0 /\ 10 * bull < 9 * bear) => word = "Bearish"
            /\ (bull > 0 /\ bear > 0 /\ 10 * bull <= 11 * bear /\ 10 * bull >= 9 * bear) =>
                 (pts = 100 /\ word = "Neutral")

\* Five sectors up and none down, the other five flat: a flat 20, Bullish.
C13_Witness ==
    /\ Returned("score_sectors")
    /\ report.args[1] = Pattern(SECTOR_INDICES, 5, 0, 0)
    /\ report.outcome.value.pts = 200
    /\ report.outcome.value.label.word = "Bullish"

\* C14: for every basket or sector mapping, the up count is the number of
\* entries that are present and > 0 and the down count the number present and
\* < 0; an entry that is None or exactly 0 adds to neither, so up + down never
\* exceeds the number of entries and equals it only when no entry is None or 0.
C14_Counts ==
    (Returned("score_nifty_breadth") \/ Returned("score_sectors")) =>
        LET m == report.args[1]
            v == report.outcome.value
            up == IF report.fn = "score_nifty_breadth" THEN v.up ELSE v.bull
            down == IF report.fn = "score_nifty_breadth" THEN v.down ELSE v.bear
            entries == Cardinality(DOMAIN m)
            missing == Cardinality({k \in DOMAIN m : m[k] = None})
            zero == Cardinality({k \in DOMAIN m : m[k] = 0})
        IN  /\ up = Cardinality({k \in DOMAIN m : m[k] # None /\ m[k] > 0})
            /\ down = Cardinality({k \in DOMAIN m : m[k] # None /\ m[k] < 0})
            /\ up + down + missing + zero = entries
            /\ up + down <= entries
            /\ (up + down = entries) <=> (missing = 0 /\ zero = 0)

\* A basket with seven symbols up, one down, one missing and one at exactly 0:
\* the counts are 7 and 1, two short of the ten entries.
C14_Witness ==
    /\ Returned("score_nifty_breadth")
    /\ report.args[1] = Pattern(NIFTY_TOP10, 7, 1, 1)
    /\ report.outcome.value.up = 7
    /\ report.outcome.value.down = 1

\* C15: no engine function raises for missing or degenerate data: each of the
\* five scorers, get_trade_recommendation and trading_signal returns a value
\* for every combination of arguments, an unknown volatility index, a None
\* put/call ratio, empty and all-None mappings and zero advances or declines
\* included.
C15_NeverRaises ==
    (report.type = "call" /\ report.returned) => report.outcome.raised = ""

\* C16: the per-factor advisory has exactly five rows, the volatility filter
\* and then the four additive factors: a Bullish factor is told "Sell PE", a
\* Bearish one "Sell CE", any other "Sell both sides", and the volatility row
\* says "Stay FLAT" exactly when the run is blocked. The vote tally counts
\* every row once (the counts sum to 5), its Sell PE and Sell CE counts are
\* the numbers of Bullish and Bearish factors, and the recommendation is the
\* one the score, the labels and the block give, whatever the rows and votes.
C16_Advisory ==
    report # NoReport =>
        LET rows == report.param_rows
            votes == report.votes
        IN  /\ Len(rows) = 5
            /\ rows[1].Parameter = "VIX Filter"
            /\ (rows[1].Option_Action = STAY_FLAT) <=> report.vix_blocked
            /\ \A i \in 1..4 :
                 /\ rows[i + 1].Parameter = param_map[i][2]
                 /\ LabelsOf(report)[i].word = "Bullish" =>
                        rows[i + 1].Option_Action = SELL_PE
                 /\ LabelsOf(report)[i].word = "Bearish" =>
                        rows[i + 1].Option_Action = SELL_CE
                 /\ LabelsOf(report)[i].word \notin {"Bullish", "Bearish"} =>
                        rows[i + 1].Option_Action = SELL_BOTH
            /\ votes["Sell PE"] + votes["Sell CE"] + votes["Both sides"] + votes["FLAT"] = 5
            /\ votes["Sell PE"] = Tally(report, "Bullish")
            /\ votes["Sell CE"] = Tally(report, "Bearish")
            /\ votes["FLAT"] = (IF report.vix_blocked THEN 1 ELSE 0)
            /\ report.trade = get_trade_recommendation(
                                  report.final_score, report.details, report.vix_blocked)

\* A blocked run with two Bullish factors, one Bearish and one Neutral: one
\* vote for FLAT, two for Sell PE, one for Sell CE and one for both sides.
C16_Witness ==
    /\ report # NoReport
    /\ report.vix_blocked
    /\ report.votes["FLAT"] = 1
    /\ report.votes["Sell PE"] = 2
    /\ report.votes["Sell CE"] = 1
    /\ report.votes["Both sides"] = 1

\* C17: at every scoring run, whatever was retrieved, the basket passed to
\* the scorers has a key for each of the 10 symbols and the sector mapping a
\* key for each of the 10 sectors, and a value that was not retrieved and not
\* entered by hand is carried as None. (In Spec the user edits only the
\* symbol in EditNames and the sector in EditSectors.)
C17_MissingIsNone ==
    calculated =>
        /\ DOMAIN report.top10 = Range(NIFTY_TOP10)
        /\ DOMAIN report.sectors = Range(SECTOR_INDICES)
        /\ \A n \in Range(NIFTY_TOP10) \ EditNames :
             Get(fetched.top10, n) = None => report.top10[n] = None
        /\ \A k \in Range(SECTOR_INDICES) \ EditSectors :
             Get(fetched.sectors, k) = None => report.sectors[k] = None

\* C18: in a run with a put/call ratio >= 0 the clamp at 0 never takes
\* effect: basket and open-interest points are each at least 15, the other
\* two factors at least 0, so the sum plus the adjustment applied is at
\* least 20, and so is the final score.
C18_ClampIdle ==
    (report # NoReport /\ report.oi_ratio # None /\ report.oi_ratio >= 0) =>
        LET applied == IF report.vix_blocked THEN 0 ELSE report.vix_adj
            raw == report.s_nifty + report.s_oi + report.s_adv + report.s_sec
        IN  /\ report.s_nifty >= 150
            /\ report.s_oi >= 150
            /\ report.s_adv >= 0
            /\ report.s_sec >= 0
            /\ applied \in {0, -100}
            /\ raw + applied >= 200
            /\ report.final_score = raw + applied
            /\ report.final_score >= 200

\* A run under an elevated volatility index whose basket and open-interest
\* factors are at their floor of 15: a final score of 38.1.
C18_Witness ==
    /\ report # NoReport
    /\ report.vix_adj = -100
    /\ report.s_nifty = 150
    /\ report.s_oi = 150
    /\ report.final_score = 381

====
